---- MODULE Spec2Model ----
(***************************************************************************)
(* A model of app.py: the three Flask request handlers (index, scorecard,  *)
(* commentary), the snapshot writer save_json_data, and the normalisation  *)
(* each handler performs on the upstream JSON payload.                     *)
(*                                                                         *)
(* A request is a small process: requests.get / raise_for_status / json(), *)
(* then save_json_data, then the normalisation, then jsonify or            *)
(* render_template; an exception raised inside the try block moves the     *)
(* request to the matching except clause.                                  *)
(***************************************************************************)
EXTENDS Integers, Sequences, FiniteSets, TLC

VARIABLES req, files, clock, DATA_DIR

vars == <<req, files, clock, DATA_DIR>>

(***************************************************************************)
(* Bounds of the model.                                                    *)
(***************************************************************************)
\* Seconds of wall-clock time that pass.
MaxClock == 1

\* Requests in flight at once under SpecConcurrent.
NumRequests == 2

\* Longest commentaryList.
MaxCommentary == 17

\* Most match-type groups in a live-matches payload.
MaxGroups == 2

\* Most innings in a scorecard payload.
MaxInnings == 2

(***************************************************************************)
(* JSON values as Python sees them after response.json().  Every value is  *)
(* a record of one shape; a mapping keeps its entries in insertion order.  *)
(***************************************************************************)
JNull == [k |-> "null", s |-> "", n |-> 0, items |-> <<>>]

JNum(n) == [k |-> "num", s |-> "", n |-> n, items |-> <<>>]

JStr(s) == [k |-> "str", s |-> s, n |-> 0, items |-> <<>>]

JList(items) == [k |-> "list", s |-> "", n |-> 0, items |-> items]

JMap(entries) == [k |-> "map", s |-> "", n |-> 0, items |-> entries]

E(key, val) == [key |-> key, val |-> val]

\* The Python object {...}: a set literal holding Ellipsis; not a JSON value.
PySetOfEllipsis == [k |-> "set", s |-> "", n |-> 0, items |-> <<>>]

IsMap(v) == v.k = "map"

IsList(v) == v.k = "list"

\* Python truthiness: None, 0, "", [] and {} are falsy.
Truthy(v) ==
    CASE v.k = "null" -> FALSE
      [] v.k = "num" -> v.n # 0
      [] v.k = "str" -> v.s # ""
      [] OTHER -> v.items # <<>>

Has(m, key) == \E i \in 1..Len(m.items) : m.items[i].key = key

Lookup(m, key) == m.items[CHOOSE i \in 1..Len(m.items) : m.items[i].key = key].val

\* dict.get(key, default); the caller has established that m is a dict.
Get(m, key, default) == IF Has(m, key) THEN Lookup(m, key) ELSE default

\* dict.values() / dict.items() in insertion order.
Values(m) == [i \in 1..Len(m.items) |-> m.items[i].val]

Keys(m) == [i \in 1..Len(m.items) |-> JStr(m.items[i].key)]

\* The result of a computation that may raise: exc is the exception class.
Ok(v) == [exc |-> "none", val |-> v]

Raise(e) == [exc |-> e, val |-> JNull]

\* x.get(...) on a value that is not a dict raises AttributeError.
GetOrRaise(v, key, default) ==
    IF IsMap(v) THEN Ok(Get(v, key, default)) ELSE Raise("AttributeError")

\* `for x in v`: a list yields its items, a dict its keys, a string its
\* characters (the model's non-empty wrong-typed strings have one character);
\* None and numbers raise TypeError.
Iterate(v) ==
    CASE v.k = "list" -> Ok(JList(v.items))
      [] v.k = "map" -> Ok(JList(Keys(v)))
      [] v.k = "str" -> Ok(JList(IF v.s = "" THEN <<>> ELSE <<v>>))
      [] OTHER -> Raise("TypeError")

\* str(v) inside an f-string, for the values the model formats.
PyStr(v) ==
    CASE v.k = "num" -> ToString(v.n)
      [] v.k = "str" -> v.s
      [] v.k = "null" -> "None"
      [] OTHER -> "<object>"

Max(a, b) == IF a >= b THEN a ELSE b

Reversed(seq) == [i \in 1..Len(seq) |-> seq[Len(seq) + 1 - i]]

\* seq[-n:]
LastN(seq, n) == SubSeq(seq, Max(1, Len(seq) - n + 1), Len(seq))

(***************************************************************************)
(* commentary(): the processing after the snapshot (lines 204-215).        *)
(***************************************************************************)
COMMENTARY_WINDOW == 15

CommentaryEntry(item) ==
    JMap(<< E("over", Get(item, "overNumber", JNull)),
            E("ball", Get(item, "ballNumber", JNull)),
            E("text", Get(item, "commText", JStr("..."))) >>)

RECURSIVE CommentaryComprehension(_)
CommentaryComprehension(seq) ==
    IF seq = <<>> THEN <<>>
    ELSE (IF IsMap(Head(seq)) THEN <<CommentaryEntry(Head(seq))>> ELSE <<>>)
         \o CommentaryComprehension(Tail(seq))

\* The first 15 elements instead of the last: items[:15].
CommentaryWindowFirst(items) ==
    SubSeq(items, 1, IF Len(items) < COMMENTARY_WINDOW THEN Len(items) ELSE COMMENTARY_WINDOW)

\* commentary_items[-15:]
CommentaryWindow(items) == LastN(items, COMMENTARY_WINDOW)

commentary_list(data) ==
    LET got == GetOrRaise(data, "commentaryList", JList(<<>>))
    IN  IF got.exc # "none" THEN got
        ELSE LET commentary_items == IF IsList(got.val) THEN got.val.items ELSE <<>>
             IN  Ok(JList(CommentaryComprehension(Reversed(CommentaryWindow(commentary_items)))))

(***************************************************************************)
(* index(): the processing after the snapshot (lines 71-84).  Each loop    *)
(* yields the entries appended to `matches` during it, or the exception    *)
(* that ended it.                                                          *)
(***************************************************************************)
\* `key in v`: a dict tests its keys, a list its items, a string its
\* substrings (no model string is longer than key); a number raises TypeError.
Contains(v, key) ==
    CASE v.k = "map" -> Ok(Has(v, key))
      [] v.k = "list" -> Ok(\E i \in 1..Len(v.items) : v.items[i] = JStr(key))
      [] v.k = "str" -> Ok(v.s = key)
      [] OTHER -> Raise("TypeError")

\* info.get("team1", {}).get("teamName", "TBD")
TeamName(info, team) ==
    GetOrRaise(Get(info, team, JMap(<<>>)), "teamName", JStr("TBD"))

\* The summary with None where the upstream omits a field.
MatchSummaryNoDefaults(info) ==
    LET team1 == GetOrRaise(Get(info, "team1", JMap(<<>>)), "teamName", JNull)
        team2 == GetOrRaise(Get(info, "team2", JMap(<<>>)), "teamName", JNull)
    IN  IF team1.exc # "none" THEN team1
        ELSE IF team2.exc # "none" THEN team2
        ELSE Ok(JMap(<< E("match_id", Lookup(info, "matchId")),
                        E("team1", team1.val),
                        E("team2", team2.val),
                        E("status", Get(info, "status", JNull)) >>))

\* The dict appended at lines 79-84.
MatchSummary(info) ==
    LET team1 == TeamName(info, "team1")
        team2 == TeamName(info, "team2")
    IN  IF team1.exc # "none" THEN team1
        ELSE IF team2.exc # "none" THEN team2
        ELSE Ok(JMap(<< E("match_id", Lookup(info, "matchId")),
                        E("team1", team1.val),
                        E("team2", team2.val),
                        E("status", Get(info, "status", JStr("Status unavailable"))) >>))

\* Lines 77-84: the body of `for game in ...`.
GameBody(game) ==
    LET info == GetOrRaise(game, "matchInfo", JMap(<<>>))
    IN  IF info.exc # "none" THEN info
        ELSE IF ~Truthy(info.val) THEN Ok(JList(<<>>))
        ELSE LET id == GetOrRaise(info.val, "matchId", JNull)
             IN  IF id.exc # "none" THEN id
                 ELSE IF ~Truthy(id.val) THEN Ok(JList(<<>>))
                 ELSE LET summary == MatchSummary(info.val)
                      IN  IF summary.exc # "none" THEN summary
                          ELSE Ok(JList(<<summary.val>>))

RECURSIVE GamesLoop(_)
GamesLoop(games) ==
    IF games = <<>> THEN Ok(JList(<<>>))
    ELSE LET first == GameBody(Head(games))
         IN  IF first.exc # "none" THEN first
             ELSE LET rest == GamesLoop(Tail(games))
                  IN  IF rest.exc # "none" THEN rest
                      ELSE Ok(JList(first.val.items \o rest.val.items))

\* Lines 74-84: the body of `for series in ...`.
SeriesBody(series) ==
    LET series_wrapper == GetOrRaise(series, "seriesAdWrapper", JMap(<<>>))
    IN  IF series_wrapper.exc # "none" THEN series_wrapper
        ELSE IF ~Truthy(series_wrapper.val) THEN Ok(JList(<<>>))
        ELSE LET has == Contains(series_wrapper.val, "matches")
             IN  IF has.exc # "none" THEN has
                 ELSE IF ~has.val THEN Ok(JList(<<>>))
                 ELSE LET got == GetOrRaise(series_wrapper.val, "matches", JList(<<>>))
                      IN  IF got.exc # "none" THEN got
                          ELSE LET games == Iterate(got.val)
                               IN  IF games.exc # "none" THEN games
                                   ELSE GamesLoop(games.val.items)

RECURSIVE SeriesLoop(_)
SeriesLoop(seriesMatches) ==
    IF seriesMatches = <<>> THEN Ok(JList(<<>>))
    ELSE LET first == SeriesBody(Head(seriesMatches))
         IN  IF first.exc # "none" THEN first
             ELSE LET rest == SeriesLoop(Tail(seriesMatches))
                  IN  IF rest.exc # "none" THEN rest
                      ELSE Ok(JList(first.val.items \o rest.val.items))

\* Lines 73-84: the body of `for match_type in ...`.
MatchTypeBody(match_type) ==
    LET got == GetOrRaise(match_type, "seriesMatches", JList(<<>>))
    IN  IF got.exc # "none" THEN got
        ELSE LET seriesMatches == Iterate(got.val)
             IN  IF seriesMatches.exc # "none" THEN seriesMatches
                 ELSE SeriesLoop(seriesMatches.val.items)

RECURSIVE MatchTypesLoop(_)
MatchTypesLoop(typeMatches) ==
    IF typeMatches = <<>> THEN Ok(JList(<<>>))
    ELSE LET first == MatchTypeBody(Head(typeMatches))
         IN  IF first.exc # "none" THEN first
             ELSE LET rest == MatchTypesLoop(Tail(typeMatches))
                  IN  IF rest.exc # "none" THEN rest
                      ELSE Ok(JList(first.val.items \o rest.val.items))

\* Lines 71-84: the list `matches` index() hands to the template.
index_matches(data) ==
    LET got == GetOrRaise(data, "typeMatches", JList(<<>>))
    IN  IF got.exc # "none" THEN got
        ELSE LET typeMatches == Iterate(got.val)
             IN  IF typeMatches.exc # "none" THEN typeMatches
                 ELSE MatchTypesLoop(typeMatches.val.items)

(***************************************************************************)
(* scorecard(): the processing after the snapshot (lines 123-163).         *)
(***************************************************************************)
\* Lines 148-153 and 156-161: one `{ ... }` per dict entry of a list, or per
\* dict value of a dict; any other shape appends nothing.
RECURSIVE PlayerLoop(_)
PlayerLoop(players) ==
    IF players = <<>> THEN <<>>
    ELSE (IF IsMap(Head(players)) THEN <<PySetOfEllipsis>> ELSE <<>>)
         \o PlayerLoop(Tail(players))

PlayerStats(players_list) ==
    CASE IsList(players_list) -> PlayerLoop(players_list.items)
      [] IsMap(players_list) -> PlayerLoop(Values(players_list))
      [] OTHER -> <<>>

\* The f-string of line 142.
ScoreString(runs, wickets) == PyStr(runs) \o "/" \o PyStr(wickets)

\* Lines 136-163: the body of the loop for an innings that is a dict.
InningsEntry(innings) ==
    LET bat_team_details == Get(innings, "batTeamDetails", JMap(<<>>))
        bat_team == GetOrRaise(bat_team_details, "batTeamName", JStr("Unknown Team"))
        score_details == Get(innings, "scoreDetails", JMap(<<>>))
        bowl_team_details == Get(innings, "bowlTeamDetails", JMap(<<>>))
        runs == GetOrRaise(score_details, "runs", JNum(0))
        batsmen_list == GetOrRaise(bat_team_details, "batsmenData", JList(<<>>))
        bowlers_list == GetOrRaise(bowl_team_details, "bowlersData", JList(<<>>))
    IN  IF bat_team.exc # "none" THEN bat_team
        ELSE IF runs.exc # "none" THEN runs
        ELSE IF bowlers_list.exc # "none" THEN bowlers_list
        ELSE Ok(JMap(<< E("team", bat_team.val),
                        E("score", JStr(ScoreString(runs.val, Get(score_details, "wickets", JNum(0))))),
                        E("overs", Get(score_details, "overs", JStr("0.0"))),
                        E("batsmen", JList(PlayerStats(batsmen_list.val))),
                        E("bowlers", JList(PlayerStats(bowlers_list.val))) >>))

\* Lines 131-163.
RECURSIVE InningsLoop(_)
InningsLoop(score_card_list) ==
    IF score_card_list = <<>> THEN Ok(JList(<<>>))
    ELSE IF ~IsMap(Head(score_card_list)) THEN InningsLoop(Tail(score_card_list))
    ELSE LET first == InningsEntry(Head(score_card_list))
         IN  IF first.exc # "none" THEN first
             ELSE LET rest == InningsLoop(Tail(score_card_list))
                  IN  IF rest.exc # "none" THEN rest
                      ELSE Ok(JList(<<first.val>> \o rest.val.items))

\* Lines 123-163: the list innings_data.
scorecard_innings(data) ==
    LET got == GetOrRaise(data, "scoreCard", JList(<<>>))
    IN  IF got.exc # "none" THEN got
        ELSE InningsLoop(IF IsList(got.val) THEN got.val.items ELSE <<>>)

(***************************************************************************)
(* jsonify: json.dumps raises TypeError on an object that is not a JSON    *)
(* value, here the set objects of lines 150-161.                           *)
(***************************************************************************)
RECURSIVE Serializable(_)
Serializable(v) ==
    CASE v.k = "set" -> FALSE
      [] v.k = "list" -> \A i \in 1..Len(v.items) : Serializable(v.items[i])
      [] v.k = "map" -> \A i \in 1..Len(v.items) : Serializable(v.items[i].val)
      [] OTHER -> TRUE

(***************************************************************************)
(* The upstream fetch: requests.get, raise_for_status and response.json(). *)
(***************************************************************************)
\* A requests.Response: status code, and the body as text or decoded JSON.
HttpResponse(status, isJson, body) ==
    [k |-> "response", status |-> status, isJson |-> isJson, body |-> body]

\* requests.get raised (connection failure, timeout): no response at all.
NetworkFailure == [k |-> "network", status |-> 0, isJson |-> FALSE, body |-> JNull]

\* response.raise_for_status() raises HTTPError for 4xx and 5xx only.
RaisesForStatus(response) == response.status >= 400 /\ response.status < 600

\* bool(http_err.response): requests.Response.__bool__ is Response.ok, which
\* is False exactly when raise_for_status() raises.
ResponseTruthy(response) == ~RaisesForStatus(response)

\* response.json() on a body that is not JSON raises requests' JSONDecodeError
\* (a RequestException, requests >= 2.27) or json.JSONDecodeError (older).
DecodeErrorClasses == {"requests.JSONDecodeError", "json.JSONDecodeError"}

\* Lines 62-65, 114-117, 195-198: the exception the fetch raises, or "none".
FetchException(f, decodeError) ==
    CASE f.k = "network" -> "ConnectionError"
      [] RaisesForStatus(f) -> "HTTPError"
      [] ~f.isJson -> decodeError
      [] OTHER -> "none"

\* The handler without its last clause.
ExceptClauseNoCatchAll(exc) ==
    CASE exc = "HTTPError" -> "HTTPError"
      [] exc \in {"ConnectionError", "requests.JSONDecodeError"} -> "RequestException"
      [] exc = "json.JSONDecodeError" -> "JSONDecodeError"
      [] OTHER -> "Unhandled"

\* The first except clause of the handler that matches the exception.
ExceptClause(exc) ==
    CASE exc = "HTTPError" -> "HTTPError"
      [] exc \in {"ConnectionError", "requests.JSONDecodeError"} -> "RequestException"
      [] exc = "json.JSONDecodeError" -> "JSONDecodeError"
      [] OTHER -> "Exception"

(***************************************************************************)
(* save_json_data (lines 35-53).                                           *)
(***************************************************************************)
\* What can go wrong while the file is opened and written.
WriteFaults == {"none", "IOError", "TypeError", "ValueError"}

\* filename.replace('/', '_').replace('\\', '_'), a name being its characters
\* (or longer pieces that hold no separator).
Sanitize(filename) ==
    [i \in 1..Len(filename) |->
        IF filename[i] \in {"/", "\\"} THEN "_" ELSE filename[i]]

\* f"{datetime.now():%Y%m%d_%H%M%S}": the wall clock to the second.
Timestamp(now) == ToString(now)

\* The names built at lines 68, 120 and 201.
SnapshotName(endpoint_name, match_id, now) ==
    IF endpoint_name = "live_matches"
    THEN <<endpoint_name, "_", Timestamp(now), ".json">>
    ELSE <<endpoint_name, "_">> \o match_id \o <<"_", Timestamp(now), ".json">>

\* save_json_data with the clause for IOError alone.
SaveCatchesOnlyIO(fault) == IF fault \in {"none", "IOError"} THEN "none" ELSE fault

\* The exception that leaves save_json_data: lines 47-52 catch IOError,
\* TypeError and every other Exception.
SaveCatches(fault) == "none"

NoFile == [name |-> <<>>, state |-> "none", data |-> JNull]

\* save_json_data(filename, data) when the write meets `fault`: the exception
\* it raises to its caller and the file it leaves behind.  open(..., 'w')
\* truncates; a TypeError inside json.dump leaves a partial file.
save_json_data(dir, filename, data, fault) ==
    IF dir = "None" THEN [exc |-> "none", outcome |-> "nodir", file |-> NoFile]
    ELSE LET filepath == Sanitize(filename)
         IN  CASE fault = "none" ->
                    [exc |-> "none", outcome |-> "saved",
                     file |-> [name |-> filepath, state |-> "complete", data |-> data]]
               [] fault = "TypeError" ->
                    [exc |-> SaveCatches(fault), outcome |-> fault,
                     file |-> [name |-> filepath, state |-> "partial", data |-> JNull]]
               [] OTHER ->
                    [exc |-> SaveCatches(fault), outcome |-> fault, file |-> NoFile]

\* The directory after a write: a file of the same name is replaced.
WriteFile(fs, file) ==
    IF file.state = "none" THEN fs
    ELSE {f \in fs : f.name # file.name} \cup {file}

(***************************************************************************)
(* The handlers' responses.                                                *)
(***************************************************************************)
NoResponse == [kind |-> "none", template |-> "", status |-> 0, body |-> JNull]

JsonResponse(body, status) ==
    [kind |-> "json", template |-> "", status |-> status, body |-> body]

PageResponse(template, body, status) ==
    [kind |-> "page", template |-> template, status |-> status, body |-> body]

\* An exception that leaves the view function: Flask answers 500 itself.
UnhandledResponse == [kind |-> "unhandled", template |-> "", status |-> 500, body |-> JNull]

ErrorBody(msg) == JMap(<<E("error", msg)>>)

\* The normalisation of each handler.
Normalise(ep, data) ==
    CASE ep = "live_matches" -> index_matches(data)
      [] ep = "scorecard" -> scorecard_innings(data)
      [] OTHER -> commentary_list(data)

\* Lines 87, 166, 218: render_template for index, jsonify for the others.
SuccessResponse(ep, out) ==
    IF ep = "live_matches" THEN Ok(PageResponse("index.html", out, 200))
    ELSE IF Serializable(out) THEN Ok(JsonResponse(out, 200))
    ELSE Raise("TypeError")

\* Lines 170, 222 (and inline at line 92).
ErrorStatus(response) ==
    IF ResponseTruthy(response) THEN response.status ELSE 500

\* Lines 89-92, 169-175, 221-227.
HTTPErrorResponse(ep, response) ==
    IF ep = "live_matches"
    THEN Ok(PageResponse("error.html",
              JStr("API Error fetching live matches: Status "
                   \o (IF ResponseTruthy(response) THEN ToString(response.status) ELSE "N/A")
                   \o ". Check API key/plan."),
              ErrorStatus(response)))
    ELSE LET status_code == ErrorStatus(response)
             error_msg == JStr("API Error fetching " \o ep \o ": Status "
                               \o ToString(status_code)
                               \o ". Check API key/endpoint/plan or match ID.")
         IN  IF ~response.isJson THEN Ok(JsonResponse(ErrorBody(error_msg), status_code))
             ELSE IF ~IsMap(response.body) THEN Raise("AttributeError")
             ELSE Ok(JsonResponse(ErrorBody(Get(response.body, "message", error_msg)),
                                  status_code))

\* Lines 93-95, 176-178, 228-230.
RequestExceptionResponse(ep) ==
    IF ep = "live_matches"
    THEN PageResponse("error.html", JStr("Network Error fetching live matches: <e>"), 500)
    ELSE JsonResponse(ErrorBody(JStr("Network Error connecting to API for " \o ep \o ": <e>")), 500)

\* Lines 96-100, 179-181, 231-233.
JSONDecodeErrorResponse(ep) ==
    IF ep = "live_matches"
    THEN PageResponse("error.html",
             JStr("Failed to parse live match API response (invalid JSON)."), 500)
    ELSE JsonResponse(ErrorBody(JStr("Failed to parse " \o ep
                                     \o " API response (invalid JSON).")), 500)

\* Lines 101-104, 182-185, 234-237.
ExceptionResponse(ep) ==
    IF ep = "live_matches"
    THEN PageResponse("error.html",
             JStr("An unexpected error occurred while fetching matches: <e>"), 500)
    ELSE JsonResponse(ErrorBody(JStr("An internal server error occurred processing "
                                     \o ep \o ".")), 500)

(***************************************************************************)
(* Requests.  pc is the request's position in its handler:                 *)
(*   idle -> fetched -> persisted -> normalised -> done, or                *)
(*   caught (an exception is on its way to the except clauses) -> done.    *)
(* trace and nresp record the steps taken and the responses returned.      *)
(***************************************************************************)
Idle ==
    [pc |-> "idle", ep |-> "none", match_id |-> <<>>, fetch |-> NetworkFailure,
     exc |-> "none", excAt |-> "none", save |-> "none", fname |-> <<>>,
     out |-> JNull, resp |-> NoResponse, nresp |-> 0, trace |-> <<>>]

\* Lines 62-65 / 114-117 / 195-198: the route is entered and the fetch made.
Fetch(r, ep, match_id, f, decodeError) ==
    /\ req[r].pc = "idle"
    /\ LET e == FetchException(f, decodeError)
       IN  req' = [req EXCEPT ![r] =
                     [@ EXCEPT !.pc = IF e = "none" THEN "fetched" ELSE "caught",
                               !.ep = ep,
                               !.match_id = match_id,
                               !.fetch = f,
                               !.exc = e,
                               !.excAt = IF e = "none" THEN "none" ELSE "fetch",
                               !.trace = <<"fetch">>]]
    /\ UNCHANGED <<files, clock, DATA_DIR>>

\* The snapshot taken of the normalised output instead.
SnapshotPayloadNormalised(r) == Normalise(req[r].ep, req[r].fetch.body).val

\* The payload save_json_data is handed at lines 68, 120, 201.
SnapshotPayload(r) == req[r].fetch.body

\* Lines 68 / 120 / 201: the call of save_json_data.
Persist(r, fault) ==
    /\ req[r].pc = "fetched"
    /\ LET filename == SnapshotName(req[r].ep, req[r].match_id, clock)
           saved == save_json_data(DATA_DIR, filename, SnapshotPayload(r), fault)
       IN  /\ files' = WriteFile(files, saved.file)
           /\ req' = [req EXCEPT ![r] =
                        [@ EXCEPT !.pc = IF saved.exc = "none" THEN "persisted" ELSE "caught",
                                  !.exc = saved.exc,
                                  !.excAt = IF saved.exc = "none" THEN "none" ELSE "persist",
                                  !.save = saved.outcome,
                                  !.fname = saved.file.name,
                                  !.trace = Append(@, "persist")]]
    /\ UNCHANGED <<clock, DATA_DIR>>

\* Lines 71-84 / 123-163 / 204-215.
Normalize(r) ==
    /\ req[r].pc = "persisted"
    /\ LET n == Normalise(req[r].ep, req[r].fetch.body)
       IN  req' = [req EXCEPT ![r] =
                     [@ EXCEPT !.pc = IF n.exc = "none" THEN "normalised" ELSE "caught",
                               !.exc = n.exc,
                               !.excAt = IF n.exc = "none" THEN "none" ELSE "normalise",
                               !.out = n.val,
                               !.trace = Append(@, "normalise")]]
    /\ UNCHANGED <<files, clock, DATA_DIR>>

\* Lines 87 / 166 / 218.
Respond(r) ==
    /\ req[r].pc = "normalised"
    /\ LET s == SuccessResponse(req[r].ep, req[r].out)
       IN  req' = [req EXCEPT ![r] =
                     IF s.exc = "none"
                     THEN [@ EXCEPT !.pc = "done", !.resp = s.val, !.nresp = @ + 1,
                                    !.trace = Append(@, "respond")]
                     ELSE [@ EXCEPT !.pc = "caught", !.exc = s.exc, !.excAt = "respond"]]
    /\ UNCHANGED <<files, clock, DATA_DIR>>

\* Lines 89-92 / 169-175 / 221-227.  An exception raised inside the clause
\* leaves the handler.
HandleHTTPError(r) ==
    /\ req[r].pc = "caught"
    /\ ExceptClause(req[r].exc) = "HTTPError"
    /\ LET h == HTTPErrorResponse(req[r].ep, req[r].fetch)
       IN  req' = [req EXCEPT ![r] =
                     [@ EXCEPT !.pc = "done",
                               !.exc = h.exc,
                               !.excAt = IF h.exc = "none" THEN @ ELSE "except",
                               !.resp = IF h.exc = "none" THEN h.val ELSE UnhandledResponse,
                               !.nresp = @ + 1,
                               !.trace = Append(@, "error")]]
    /\ UNCHANGED <<files, clock, DATA_DIR>>

\* Lines 93-95 / 176-178 / 228-230.
HandleRequestException(r) ==
    /\ req[r].pc = "caught"
    /\ ExceptClause(req[r].exc) = "RequestException"
    /\ req' = [req EXCEPT ![r] =
                 [@ EXCEPT !.pc = "done", !.resp = RequestExceptionResponse(req[r].ep),
                           !.nresp = @ + 1, !.trace = Append(@, "error")]]
    /\ UNCHANGED <<files, clock, DATA_DIR>>

\* Lines 96-100 / 179-181 / 231-233.
HandleJSONDecodeError(r) ==
    /\ req[r].pc = "caught"
    /\ ExceptClause(req[r].exc) = "JSONDecodeError"
    /\ req' = [req EXCEPT ![r] =
                 [@ EXCEPT !.pc = "done", !.resp = JSONDecodeErrorResponse(req[r].ep),
                           !.nresp = @ + 1, !.trace = Append(@, "error")]]
    /\ UNCHANGED <<files, clock, DATA_DIR>>

\* Lines 101-104 / 182-185 / 234-237: the catch-all clause (an exception no
\* clause matches would leave the handler).
HandleException(r) ==
    /\ req[r].pc = "caught"
    /\ ExceptClause(req[r].exc) \notin {"HTTPError", "RequestException", "JSONDecodeError"}
    /\ req' = [req EXCEPT ![r] =
                 [@ EXCEPT !.pc = "done",
                           !.resp = IF ExceptClause(req[r].exc) = "Exception"
                                    THEN ExceptionResponse(req[r].ep)
                                    ELSE UnhandledResponse,
                           !.nresp = @ + 1, !.trace = Append(@, "error")]]
    /\ UNCHANGED <<files, clock, DATA_DIR>>

\* A second of wall-clock time passes.
Tick ==
    /\ clock < MaxClock
    /\ clock' = clock + 1
    /\ UNCHANGED <<req, files, DATA_DIR>>

(***************************************************************************)
(* The upstream payloads the requests are run on.                          *)
(***************************************************************************)
SeqsUpTo(S, n) == UNION {[1..len -> S] : len \in 0..n}

\* --- commentary: a feed numbered 1..n in which entry p is not a mapping
\* and entry q is a mapping without fields (0: no such entry).
CommentaryItem(i) ==
    JMap(<< E("overNumber", JNum(i)), E("ballNumber", JNum(1)),
            E("commText", JStr("c" \o ToString(i))) >>)

CommentaryFeed(n, p, q) ==
    [i \in 1..n |-> IF i = p THEN (IF i % 2 = 0 THEN JStr("x") ELSE JNull)
                    ELSE IF i = q THEN JMap(<<>>)
                    ELSE CommentaryItem(i)]

CommentaryFeeds ==
    {CommentaryFeed(n, p, q) :
        n \in 0..MaxCommentary, p \in 0..MaxCommentary, q \in 0..MaxCommentary}

CommentaryPayloads ==
    {JMap(<<E("matchHeader", JMap(<<>>)), E("commentaryList", JList(feed))>>) :
        feed \in CommentaryFeeds}
    \cup {JMap(<<E("commentaryList", v)>>) :
            v \in {JNull, JNum(3), JStr("x"), JMap(<<E("1", CommentaryItem(1))>>)}}
    \cup {JMap(<<>>), JList(<<CommentaryItem(1)>>)}

\* --- live matches: well-formed payloads.
Team(name) == JMap(<<E("teamName", JStr(name))>>)

Game(info) == JMap(<<E("matchInfo", info)>>)

GameIndiaOnly == Game(JMap(<<E("matchId", JNum(123)), E("team1", Team("India"))>>))

GameFull ==
    Game(JMap(<< E("matchId", JNum(456)), E("team1", Team("Australia")),
                 E("team2", Team("England")), E("status", JStr("Live")) >>))

GameNoId == Game(JMap(<<E("team1", Team("Kenya")), E("status", JStr("Stumps"))>>))

GameEmptyId == Game(JMap(<<E("matchId", JStr("")), E("team1", Team("Oman"))>>))

GameNoInfo == JMap(<<E("adDetail", JStr("banner"))>>)

GameNamelessTeam ==
    Game(JMap(<< E("matchId", JStr("m789")), E("team1", JMap(<<>>)),
                 E("team2", Team("Nepal")) >>))

Series(games) == JMap(<<E("seriesAdWrapper", JMap(<<E("seriesName", JStr("Cup")), E("matches", JList(games))>>))>>)

SeriesKinds ==
    { JMap(<<E("adDetail", JStr("banner"))>>),
      Series(<<GameIndiaOnly, GameNoId>>),
      Series(<<GameEmptyId, GameFull, GameNamelessTeam, GameNoInfo>>) }

Group(seriesMatches) == JMap(<<E("matchType", JStr("International")), E("seriesMatches", JList(seriesMatches))>>)

GroupKinds ==
    {Group(s) : s \in SeqsUpTo(SeriesKinds, 2)} \cup {JMap(<<E("matchType", JStr("League"))>>)}

WellFormedMatchPayloads ==
    {JMap(<<E("typeMatches", JList(groups))>>) : groups \in SeqsUpTo(GroupKinds, MaxGroups)}
    \cup {JMap(<<>>),
          JMap(<<E("typeMatches", JList(<<Group(<<JMap(<<E("seriesAdWrapper", JMap(<<>>))>>),
                                                  JMap(<<E("seriesAdWrapper", JMap(<<E("seriesName", JStr("Cup"))>>))>>),
                                                  Series(<<>>), Series(<<GameFull>>)>>)>>))>>),
          JMap(<<E("typeMatches", JList(<<Group(<<Series(<<GameIndiaOnly>>)>>),
                                           Group(<<Series(<<>>)>>)>>))>>)}

\* --- live matches: a key holding a value of the wrong type, at each level.
WrongTyped(key, values) == {JMap(<<E(key, v)>>) : v \in values}

MalformedMatchPayloads ==
    LET InGroup(series) == JMap(<<E("typeMatches", JList(<<Group(<<series>>), Group(<<Series(<<GameFull>>)>>)>>))>>)
    IN  WrongTyped("typeMatches",
            {JNull, JNum(5), JStr(""), JStr("x"), JMap(<<>>), JMap(<<E("k", JNum(1))>>),
             JList(<<JNum(7)>>)})
        \cup {JMap(<<E("typeMatches", JList(<<g>>))>>) :
                g \in WrongTyped("seriesMatches",
                        {JNull, JNum(5), JMap(<<E("k", JNum(1))>>), JList(<<JNum(7)>>)})}
        \cup {InGroup(s) :
                s \in WrongTyped("seriesAdWrapper",
                        {JNull, JNum(5), JStr("x"), JList(<<JStr("matches")>>),
                         JMap(<<E("matches", JNull)>>),
                         JMap(<<E("matches", JMap(<<E("a", JNum(1))>>))>>),
                         JMap(<<E("matches", JList(<<JNum(7)>>))>>)})}
        \cup {InGroup(Series(<<g>>)) :
                g \in WrongTyped("matchInfo",
                        {JNull, JNum(5), JStr("x"),
                         JMap(<<E("matchId", JNum(9)), E("team1", JNull)>>)})}
        \cup {JList(<<>>)}

MatchPayloads == WellFormedMatchPayloads \cup MalformedMatchPayloads

\* --- scorecard.
PlayerA == JMap(<<E("batName", JStr("Kohli")), E("runs", JNum(50))>>)

PlayerB == JMap(<<E("batName", JStr("Sharma"))>>)

\* The same entries as an ordered sequence and as an id-keyed mapping.
AsSequence(entries) == JList(entries)

AsKeyed(entries) == JMap([i \in 1..Len(entries) |-> E("id" \o ToString(i), entries[i])])

PlayerEntrySeqs == {<<>>, <<PlayerA, PlayerB>>, <<PlayerA, JNum(7), PlayerB>>}

FullScore == JMap(<<E("runs", JNum(120)), E("wickets", JNum(3)), E("overs", JStr("20.0"))>>)

Innings(name, score, batsmen, bowlers) ==
    JMap(<< E("batTeamDetails", JMap(name \o batsmen)),
            E("bowlTeamDetails", JMap(bowlers)) >> \o score)

InningsKinds ==
    {Innings(<<E("batTeamName", JStr("India"))>>, <<E("scoreDetails", FullScore)>>,
             <<E("batsmenData", enc)>>, <<>>) :
        enc \in {AsSequence(p) : p \in PlayerEntrySeqs} \cup {AsKeyed(p) : p \in PlayerEntrySeqs}}
    \cup {Innings(<<>>, <<E("scoreDetails", FullScore)>>, <<>>, <<E("bowlersData", enc)>>) :
            enc \in {AsSequence(<<PlayerB>>), AsKeyed(<<PlayerB>>)}}
    \cup {Innings(<<>>, score, <<>>, <<>>) :
            score \in {<<>>, <<E("scoreDetails", JMap(<<>>))>>,
                       <<E("scoreDetails", JMap(<<E("runs", JNum(5))>>))>>,
                       <<E("scoreDetails", JNull)>>,
                       <<E("scoreDetails", JList(<<>>))>>}}
    \cup {JMap(<<E("batTeamDetails", JNull)>>), JNum(7)}

ScorecardPayloads ==
    {JMap(<<E("scoreCard", JList(innings))>>) : innings \in SeqsUpTo(InningsKinds, MaxInnings)}
    \cup WrongTyped("scoreCard", {JNull, JNum(5), JStr("x"), JMap(<<E("1", JMap(<<>>))>>)})
    \cup {JMap(<<>>), JList(<<>>)}

Payloads(ep) ==
    CASE ep = "live_matches" -> MatchPayloads
      [] ep = "scorecard" -> ScorecardPayloads
      [] OTHER -> CommentaryPayloads

\* --- what the upstream can answer.
ErrorBodies ==
    {HttpResponse(s, j, b) :
        s \in {403, 500},
        j \in {TRUE},
        b \in {JMap(<<E("message", JStr("You are not subscribed to this API."))>>),
               JMap(<<E("info", JStr("no message"))>>), JList(<<>>)}}
    \cup {HttpResponse(s, FALSE, JNull) : s \in {403, 500}}

Fetches(ep) ==
    {HttpResponse(200, TRUE, data) : data \in Payloads(ep)}
    \cup {HttpResponse(300, TRUE, JMap(<<>>)), HttpResponse(200, FALSE, JNull), NetworkFailure}
    \cup ErrorBodies

Endpoints == {"live_matches", "scorecard", "commentary"}

\* <match_id> of the route: any text without a slash.
MatchIds(ep) ==
    IF ep = "live_matches" THEN {<<>>}
    ELSE {<<"7">>, <<"a", "\\", "b">>, <<"a", "_", "b">>}

\* The requests of Spec differ in what the upstream answers, not in the id.
OneMatchId(ep) == IF ep = "live_matches" THEN {<<>>} ELSE {<<"7">>}

\* One payload per endpoint, for the runs that look only at the interleaving.
SmallPayload(ep) ==
    CASE ep = "live_matches" -> JMap(<<E("typeMatches", JList(<<Group(<<Series(<<GameFull>>)>>)>>))>>)
      [] ep = "scorecard" -> JMap(<<E("scoreCard", JList(<<JMap(<<E("scoreDetails", FullScore)>>)>>))>>)
      [] OTHER -> JMap(<<E("commentaryList", JList(<<CommentaryItem(1)>>))>>)

(***************************************************************************)
(* Specifications.                                                         *)
(***************************************************************************)
\* A request arrives at one of the three routes.
Request(r) ==
    /\ req[r].pc = "idle"
    /\ \E ep \in Endpoints : \E match_id \in OneMatchId(ep) : \E f \in Fetches(ep) :
        \E decodeError \in DecodeErrorClasses : Fetch(r, ep, match_id, f, decodeError)

RequestSmall(r) ==
    /\ req[r].pc = "idle"
    /\ \E ep \in Endpoints : \E match_id \in MatchIds(ep) :
        Fetch(r, ep, match_id, HttpResponse(200, TRUE, SmallPayload(ep)), "json.JSONDecodeError")

\* The request of Spec, and the requests in flight under SpecConcurrent.
Single == {1}

Concurrent == 1..NumRequests

\* Startup (lines 26-32): the data directory exists, or DATA_DIR is None.
Init ==
    /\ req = [r \in Single |-> Idle]
    /\ files = {}
    /\ clock = 0
    /\ DATA_DIR \in {"api_data", "None"}

\* One request, through every path of its handler.
Next ==
    \E r \in Single :
        \/ Request(r)
        \/ \E fault \in WriteFaults : Persist(r, fault)
        \/ Normalize(r)
        \/ Respond(r)
        \/ HandleHTTPError(r)
        \/ HandleRequestException(r)
        \/ HandleJSONDecodeError(r)
        \/ HandleException(r)

Spec == Init /\ [][Next]_vars

\* Several requests served at once, while the clock runs.
InitConcurrent ==
    /\ req = [r \in Concurrent |-> Idle]
    /\ files = {}
    /\ clock = 0
    /\ DATA_DIR = "api_data"

NextConcurrent ==
    \/ Tick
    \/ \E r \in Concurrent :
        \/ RequestSmall(r)
        \/ \E fault \in WriteFaults : Persist(r, fault)
        \/ Normalize(r)
        \/ Respond(r)

SpecConcurrent == InitConcurrent /\ [][NextConcurrent]_vars

(***************************************************************************)
(* Properties.                                                             *)
(***************************************************************************)
\* The fetch of request q returned a response that raise_for_status accepted
\* and whose body decoded as JSON.
FetchSucceeded(q) ==
    q.fetch.k = "response" /\ q.fetch.status < 400 /\ q.fetch.isJson

\* The sequence under `key`, empty when the key is missing or, read
\* leniently, holds anything but a sequence.
ListAt(m, key) ==
    IF IsMap(m) /\ Has(m, key) /\ IsList(Lookup(m, key)) THEN Lookup(m, key).items ELSE <<>>

MapAt(m, key) ==
    IF IsMap(m) /\ Has(m, key) /\ IsMap(Lookup(m, key)) THEN Lookup(m, key) ELSE JMap(<<>>)

RECURSIVE Flatten(_)
Flatten(seqs) == IF seqs = <<>> THEN <<>> ELSE Head(seqs) \o Flatten(Tail(seqs))

\* ---- C1 ----------------------------------------------------------------
\* C1 (as claimed): a request whose upstream answered a non-2xx status s is
\* answered with status s; for scorecard and commentary the body is
\* {error: m}, m being the upstream body's message when that body is a JSON
\* mapping with a message.
C1_UpstreamStatusPropagated ==
    \A r \in DOMAIN req :
        LET q == req[r]
        IN  (q.pc = "done" /\ q.fetch.k = "response" /\ q.fetch.status \notin 200..299)
            => /\ q.resp.status = q.fetch.status
               /\ (q.ep # "live_matches") =>
                    /\ q.resp.kind = "json"
                    /\ Len(q.resp.body.items) = 1
                    /\ q.resp.body.items[1].key = "error"
                    /\ (q.fetch.isJson /\ IsMap(q.fetch.body) /\ Has(q.fetch.body, "message"))
                         => q.resp.body.items[1].val = Lookup(q.fetch.body, "message")

\* ---- C2 ----------------------------------------------------------------
\* C2 (as claimed): two requests in flight that have each written a snapshot
\* wrote to different file names.
C2_DistinctSnapshotNames ==
    \A r1, r2 \in DOMAIN req :
        (/\ r1 # r2
         /\ req[r1].pc \in {"persisted", "normalised"}
         /\ req[r2].pc \in {"persisted", "normalised"}
         /\ req[r1].save = "saved"
         /\ req[r2].save = "saved")
        => req[r1].fname # req[r2].fname

\* ---- C3 ----------------------------------------------------------------
\* What the claim expects of one kept commentary element.
ExpectedCommentaryEntry(item) ==
    JMap(<< E("over", IF Has(item, "overNumber") THEN Lookup(item, "overNumber") ELSE JNull),
            E("ball", IF Has(item, "ballNumber") THEN Lookup(item, "ballNumber") ELSE JNull),
            E("text", IF Has(item, "commText") THEN Lookup(item, "commText") ELSE JStr("...")) >>)

\* The indices of L inside its last-15 slice that hold mappings.
KeptCommentary(L) == {i \in 1..Len(L) : i > Len(L) - 15 /\ IsMap(L[i])}

LeafMatches(data) ==
    LET groups == ListAt(data, "typeMatches")
        SeriesOf(g) == ListAt(g, "seriesMatches")
        GamesOf(s) == ListAt(MapAt(s, "seriesAdWrapper"), "matches")
    IN  Flatten([g \in 1..Len(groups) |->
            Flatten([s \in 1..Len(SeriesOf(groups[g])) |-> GamesOf(SeriesOf(groups[g])[s])])])

HasMatchId(game) ==
    LET info == MapAt(game, "matchInfo")
    IN  Has(info, "matchId") /\ Lookup(info, "matchId") \notin {JNull, JStr("")}

ExpectedTeam(info, team) ==
    IF Has(MapAt(info, team), "teamName") THEN Lookup(Lookup(info, team), "teamName")
    ELSE JStr("TBD")

ExpectedSummary(game) ==
    LET info == MapAt(game, "matchInfo")
    IN  JMap(<< E("match_id", Lookup(info, "matchId")),
                E("team1", ExpectedTeam(info, "team1")),
                E("team2", ExpectedTeam(info, "team2")),
                E("status", IF Has(info, "status") THEN Lookup(info, "status")
                            ELSE JStr("Status unavailable")) >>)

ExpectedMatches(data) ==
    LET kept == SelectSeq(LeafMatches(data), HasMatchId)
    IN  [i \in 1..Len(kept) |-> ExpectedSummary(kept[i])]

\* Every key of the match-list payload that is present holds the type the
\* traversal expects.
AbsentOr(m, key, Good(_)) == Has(m, key) => Good(Lookup(m, key))

AllItems(v, Good(_)) == IsList(v) /\ \A i \in 1..Len(v.items) : Good(v.items[i])

IsText(v) == v.k = "str"

IsId(v) == (v.k = "str") \/ (v.k = "num" /\ v.n > 0)

WellFormedTeam(t) == IsMap(t) /\ AbsentOr(t, "teamName", IsText)

WellFormedInfo(info) ==
    /\ IsMap(info)
    /\ AbsentOr(info, "matchId", IsId)
    /\ AbsentOr(info, "team1", WellFormedTeam)
    /\ AbsentOr(info, "team2", WellFormedTeam)
    /\ AbsentOr(info, "status", IsText)

WellFormedGame(game) == IsMap(game) /\ AbsentOr(game, "matchInfo", WellFormedInfo)

WellFormedGames(v) == AllItems(v, WellFormedGame)

WellFormedWrapper(w) == IsMap(w) /\ AbsentOr(w, "matches", WellFormedGames)

WellFormedSeries(s) == IsMap(s) /\ AbsentOr(s, "seriesAdWrapper", WellFormedWrapper)

WellFormedSeriesList(v) == AllItems(v, WellFormedSeries)

WellFormedGroup(g) == IsMap(g) /\ AbsentOr(g, "seriesMatches", WellFormedSeriesList)

WellFormedGroups(v) == AllItems(v, WellFormedGroup)

WellFormedMatchPayload(data) == IsMap(data) /\ AbsentOr(data, "typeMatches", WellFormedGroups)

\* C4: a live-matches request with a well-formed payload is answered with
\* the index page holding exactly the leaf entries that carry a non-empty
\* matchId, in upstream order, depth first, with "TBD" and
\* "Status unavailable" for what is missing; so no more summaries than leaf
\* entries, and each with a non-empty match_id.
C4_MatchListFlattening ==
    \A r \in DOMAIN req :
        LET q == req[r]
        IN  (q.pc = "done" /\ q.ep = "live_matches" /\ FetchSucceeded(q)
             /\ WellFormedMatchPayload(q.fetch.body))
            => /\ q.resp = PageResponse("index.html", JList(ExpectedMatches(q.fetch.body)), 200)
               /\ Len(q.resp.body.items) <= Len(LeafMatches(q.fetch.body))
               /\ \A i \in 1..Len(q.resp.body.items) :
                    Lookup(q.resp.body.items[i], "match_id") \notin {JNull, JStr("")}

\* Two groups answered with three summaries, defaults applied and entries
\* without an id dropped (the first summary is the one of scenario A).
C4_Witness ==
    \E r \in DOMAIN req :
        LET q == req[r]
        IN  /\ q.pc = "done" /\ q.ep = "live_matches" /\ FetchSucceeded(q)
            /\ WellFormedMatchPayload(q.fetch.body)
            /\ Len(ListAt(q.fetch.body, "typeMatches")) = 2
            /\ Len(LeafMatches(q.fetch.body)) = 6
            /\ Len(q.resp.body.items) = 3
            /\ q.resp.body.items[1] =
                 JMap(<< E("match_id", JNum(123)), E("team1", JStr("India")),
                         E("team2", JStr("TBD")), E("status", JStr("Status unavailable")) >>)

\* C5 (as claimed): a live-matches payload with a missing or wrong-typed key
\* at any level is still answered with the index page, the faulty key
\* counting as an empty sequence.
C5_WrongTypeDegrades ==
    \A r \in DOMAIN req :
        LET q == req[r]
        IN  (q.pc = "done" /\ q.ep = "live_matches" /\ FetchSucceeded(q) /\ IsMap(q.fetch.body))
            => q.resp = PageResponse("index.html", JList(ExpectedMatches(q.fetch.body)), 200)

\* ---- C6, C9 ------------------------------------------------------------
\* The entries of a player list in either encoding, in order.
PlayerEntries(v) ==
    CASE IsList(v) -> v.items
      [] IsMap(v) -> Values(v)
      [] OTHER -> <<>>

MapEntries(v) == SelectSeq(PlayerEntries(v), IsMap)

\* The innings of a payload that are mappings, in input order.
MapInnings(data) == SelectSeq(ListAt(data, "scoreCard"), IsMap)

BatsmenData(innings) ==
    IF Has(MapAt(innings, "batTeamDetails"), "batsmenData")
    THEN Lookup(Lookup(innings, "batTeamDetails"), "batsmenData") ELSE JList(<<>>)

BowlersData(innings) ==
    IF Has(MapAt(innings, "bowlTeamDetails"), "bowlersData")
    THEN Lookup(Lookup(innings, "bowlTeamDetails"), "bowlersData") ELSE JList(<<>>)

\* The team details of every innings are mappings when present.
TeamDetailsAreMaps(data) ==
    \A i \in 1..Len(MapInnings(data)) :
        /\ AbsentOr(MapInnings(data)[i], "batTeamDetails", IsMap)
        /\ AbsentOr(MapInnings(data)[i], "bowlTeamDetails", IsMap)

ScoreDetailsAreMaps(data) ==
    \A i \in 1..Len(MapInnings(data)) : AbsentOr(MapInnings(data)[i], "scoreDetails", IsMap)

\* C6 (as claimed): a scorecard payload is answered 200 with, per innings,
\* one batsman and one bowler per mapping-typed entry of batsmenData and
\* bowlersData, whether these arrive as a sequence or as an id-keyed mapping.
C6_PlayerEncodingsAgree ==
    \A r \in DOMAIN req :
        LET q == req[r]
            innings == MapInnings(q.fetch.body)
        IN  (q.pc = "done" /\ q.ep = "scorecard" /\ FetchSucceeded(q) /\ IsMap(q.fetch.body)
             /\ TeamDetailsAreMaps(q.fetch.body) /\ ScoreDetailsAreMaps(q.fetch.body))
            => /\ q.resp.kind = "json" /\ q.resp.status = 200
               /\ Len(q.resp.body.items) = Len(innings)
               /\ \A i \in 1..Len(innings) :
                    /\ Len(Lookup(q.resp.body.items[i], "batsmen").items)
                         = Len(MapEntries(BatsmenData(innings[i])))
                    /\ Len(Lookup(q.resp.body.items[i], "bowlers").items)
                         = Len(MapEntries(BowlersData(innings[i])))

\* What the claim expects of runs/wickets/overs: the upstream value, or the
\* default when it, or scoreDetails itself, is missing or no mapping.
ExpectedScore(innings) ==
    LET d == MapAt(innings, "scoreDetails")
    IN  PyStr(IF Has(d, "runs") THEN Lookup(d, "runs") ELSE JNum(0)) \o "/"
        \o PyStr(IF Has(d, "wickets") THEN Lookup(d, "wickets") ELSE JNum(0))

ExpectedOvers(innings) ==
    LET d == MapAt(innings, "scoreDetails")
    IN  IF Has(d, "overs") THEN Lookup(d, "overs") ELSE JStr("0.0")

NoPlayers(data) ==
    \A i \in 1..Len(MapInnings(data)) :
        /\ MapEntries(BatsmenData(MapInnings(data)[i])) = <<>>
        /\ MapEntries(BowlersData(MapInnings(data)[i])) = <<>>

\* C9 (as claimed): a scorecard payload is answered with one summary per
\* mapping-typed innings, in input order, each with score "runs/wickets" and
\* overs, defaulting to 0, 0 and "0.0", also when scoreDetails is absent or
\* no mapping.  (Stated for payloads without player entries.)
C9_InningsDefaults ==
    \A r \in DOMAIN req :
        LET q == req[r]
            innings == MapInnings(q.fetch.body)
        IN  (q.pc = "done" /\ q.ep = "scorecard" /\ FetchSucceeded(q) /\ IsMap(q.fetch.body)
             /\ TeamDetailsAreMaps(q.fetch.body) /\ NoPlayers(q.fetch.body))
            => /\ q.resp.kind = "json" /\ q.resp.status = 200
               /\ Len(q.resp.body.items) = Len(innings)
               /\ \A i \in 1..Len(innings) :
                    /\ Lookup(q.resp.body.items[i], "score") = JStr(ExpectedScore(innings[i]))
                    /\ Lookup(q.resp.body.items[i], "overs") = ExpectedOvers(innings[i])

\* ---- C7 ----------------------------------------------------------------
\* The response of the handler once the snapshot call has returned.
ResponseAfterSave(ep, data) ==
    LET n == Normalise(ep, data)
    IN  IF n.exc # "none" THEN ExceptionResponse(ep)
        ELSE LET s == SuccessResponse(ep, n.val)
             IN  IF s.exc = "none" THEN s.val ELSE ExceptionResponse(ep)

\* C7: whatever the write met (no directory since startup, IOError,
\* TypeError, any other exception), save_json_data returned without raising,
\* and the request is answered as it is when the write succeeds.
C7_SaveNeverRaises ==
    \A r \in DOMAIN req :
        LET q == req[r]
        IN  (q.save # "none")
            => /\ q.excAt # "persist"
               /\ q.pc # "fetched"
               /\ (q.pc = "done") => q.resp = ResponseAfterSave(q.ep, q.fetch.body)

\* A request whose write failed has been answered 200.
C7_Witness ==
    \E r \in DOMAIN req :
        /\ req[r].pc = "done"
        /\ req[r].save \in {"TypeError", "ValueError"}
        /\ req[r].resp.status = 200
        /\ Len(req[r].resp.body.items) > 0

\* ---- C8 ----------------------------------------------------------------
\* C8: a request is answered at most once, and exactly once when it ends;
\* and an exception raised after the fetch, by the snapshot call, the
\* normalisation or the serialisation, is answered 500 by the handler itself.
C8_CatchAll ==
    \A r \in DOMAIN req :
        LET q == req[r]
        IN  /\ q.nresp = (IF q.pc = "done" THEN 1 ELSE 0)
            /\ (q.pc = "done" /\ q.excAt \in {"persist", "normalise", "respond"})
                 => q.resp.status = 500 /\ q.resp.kind \in {"json", "page"}

\* A request whose serialisation raised has been answered.
C8_Witness ==
    \E r \in DOMAIN req :
        /\ req[r].pc = "done"
        /\ req[r].ep = "scorecard"
        /\ req[r].excAt = "respond"
        /\ req[r].exc = "TypeError"
        /\ req[r].resp.status = 500

\* ---- C10 ---------------------------------------------------------------
\* The orders in which a request can have taken its steps so far.
StepOrders ==
    { <<>>, <<"fetch">>, <<"fetch", "error">>, <<"fetch", "persist">>,
      <<"fetch", "persist", "normalise">>,
      <<"fetch", "persist", "normalise", "respond">>,
      <<"fetch", "persist", "normalise", "error">> }

Attempts(q) == Cardinality({i \in 1..Len(q.trace) : q.trace[i] = "persist"})

\* The order of the steps, one snapshot call at most and before the answer,
\* none after a failed fetch, and the snapshot holding the raw payload;
\* FetchOk says which fetches count as successful.
PipelineOrder(FetchOk(_)) ==
    \A r \in DOMAIN req :
        LET q == req[r]
        IN  /\ q.trace \in StepOrders
            /\ Attempts(q) <= 1
            /\ (Attempts(q) = 1) => FetchOk(q)
            /\ (q.pc # "idle" /\ ~FetchOk(q)) => (Attempts(q) = 0 /\ q.save = "none")
            /\ (q.pc = "done" /\ FetchOk(q)) => Attempts(q) = 1
            /\ \A file \in files :
                 (file.name = q.fname /\ file.state = "complete") => file.data = q.fetch.body

Fetched2xx(q) ==
    q.fetch.k = "response" /\ q.fetch.status \in 200..299 /\ q.fetch.isJson

====
